---- MODULE Spec2Model ----
(***************************************************************************)
(* The gatekeeper services of the repository: IndexTTS2, MuseTalk and      *)
(* Wan2GP (a worker_loop polling a jobs table) and ComfyUI (a listener on  *)
(* the renderer's event stream).  One behaviour is one process lifetime of *)
(* one of the services; gk says which.                                     *)
(*                                                                         *)
(* A state is what the database file and the process hold between two      *)
(* commits or two suspension points of the event loop: every action has at *)
(* most one db.commit() per row and ends at a commit or at an await.       *)
(***************************************************************************)
EXTENDS Integers, Sequences, FiniteSets, TLC

\* ---- bounds of the model
MaxJobs == 2
MaxTicks == 2
MaxClients == 2

\* ---- program constants
IDLE_TIMEOUT_SECONDS == 20
JOB_HISTORY_DAYS == 30
COMPLETED_JOB_HISTORY_DAYS == 7

\* The clock advances in steps of the idle timeout, so that "exactly the
\* timeout" and "more than the timeout" are both readings the loop can make.
TickSeconds == IDLE_TIMEOUT_SECONDS

None == "None"
\* LAST_JOB_TIMESTAMP = None
NoTimestamp == -1
\* last_queue_remaining = None
NoQueue == -1
URL == "http://callback"

VARIABLES
    gk,                  \* the service this process runs
    jobs,                \* the jobs table, rows in insertion (rowid) order: committed state
    now,                 \* the clock, in seconds
    pc,                  \* where the background task (worker_loop, listen_to_comfyui) is
    job,                 \* the background task's local `job`: a row number, 0 when it holds
                         \* none; the row it ended on once pc = "dead"
    session,             \* uncommitted changes of worker_loop's session to `job`
    PROCESSING_LOCK,     \* TRUE while the asyncio.Lock is held
    MODELS,              \* TRUE when the MODELS dict is non-empty (engine loaded)
    LAST_JOB_TIMESTAMP,  \* NoTimestamp or a clock reading
    active_connections,  \* manager.active_connections: the job ids that have a websocket
    sockets,             \* per job, the clients whose websocket_endpoint is in its receive
                         \* loop, in the order they were accepted
    delivered,           \* per job, the result deliveries attempted so far, in order
    did,                 \* what the last step did with the engine: "loaded", "load_raised"
                         \* (load_models built it, or raised), "unloaded" (unload_models
                         \* released it), or "query_raised" (worker_loop's db.query
                         \* raised), "restarted" (the process was shut down and started
                         \* again), "shutdown" (the lifespan's shutdown part ran), or "repeat" (ComfyUI: the listener's last message
                         \* was a completion signal for a row already 'completed');
                         \* "" for a step that did none of these
    worker,              \* per job, how the try block's load_models and Worker calls ended
                         \* for it: "" (not yet), "returned", "raised"
    polling,             \* Wan2GP: the jobs whose /generate request is in its polling loop
    handlers,            \* ComfyUI: per job, where its /execute handler is ("" when it has returned)
    last_queue_remaining,\* ComfyUI: the listener's global, NoQueue for None
    last_prompt_id,      \* ComfyUI: the listener's global, 0 for None
    current_queue,       \* ComfyUI: the listener's local while handle_job_completion runs
    events,              \* ComfyUI: the renderer's messages the listener has not read yet
    rqueue,              \* renderer: the prompts accepted and not finished, oldest first
    running,             \* renderer: TRUE when the head of rqueue is executing
    history,             \* renderer: the prompts /history has an entry for
    disk,                \* per job, where its output is: "absent", "source" (one file in
                         \* the renderer's output directory), "sources" (several files
                         \* there), "dest" (moved to output_path), "removed"
    http                 \* the answer of the submission or status request handled by the
                         \* last step (NoRequest when that step answered none)

\* What the worker-loop services hold besides the jobs table.
wvars == <<session, PROCESSING_LOCK, MODELS, LAST_JOB_TIMESTAMP, did, worker, polling>>
\* What ComfyUI and its renderer hold besides the jobs table.
cvars == <<handlers, last_queue_remaining, last_prompt_id, current_queue, events,
           rqueue, running, history, disk>>

vars == <<gk, jobs, now, pc, job, active_connections, sockets, delivered, http, wvars, cvars>>

JobIds == 1..MaxJobs
Statuses == {"pending", "processing", "completed", "failed"}
Terminal == {"completed", "failed"}

\* What the result column holds: json {"filePath": ...} or traceback text.
FilePath == "filePath"
Traceback == "traceback"

\* A session with nothing to flush.
Clean == [status |-> None, result_data |-> None]

NoRequest == [missing |-> FALSE, code |-> 0]

\* Column(..., default=...) of the Job classes: a row as inserted.
NewRow(ctype, curl, binary) ==
    [status |-> "pending", result_data |-> None, created_at |-> now,
     callback_type |-> ctype, callback_url |-> curl, webhook_binary_output |-> binary]

\* db.add(new_job); db.commit()
Insert(row) == Append(jobs, row)

\* A commit on a table whose created_at column is also stamped on update.
Commit_stamping(j, st, res) ==
    [jobs EXCEPT ![j].status = st, ![j].result_data = res, ![j].created_at = now]

\* A commit that writes the status and leaves the result column as it was.
Commit_status_only(j, st, res) == [jobs EXCEPT ![j].status = st]

\* job.<columns> = ...; db.commit() on row j
Commit(j, st, res) == [jobs EXCEPT ![j].status = st, ![j].result_data = res]

Init ==
    /\ gk \in {"IndexTTS2", "MuseTalk", "Wan2GP", "ComfyUI"}
    /\ jobs = << >>
    /\ now = 0
    /\ pc = IF gk = "ComfyUI" THEN "listen" ELSE "sleep"
    /\ job = 0
    /\ session = Clean
    /\ PROCESSING_LOCK = FALSE
    /\ MODELS = FALSE
    /\ LAST_JOB_TIMESTAMP = NoTimestamp
    /\ active_connections = {}
    /\ sockets = [j \in JobIds |-> << >>]
    /\ delivered = [j \in JobIds |-> << >>]
    /\ did = ""
    /\ worker = [j \in JobIds |-> ""]
    /\ polling = {}
    /\ http = NoRequest
    /\ handlers = [j \in JobIds |-> ""]
    /\ last_queue_remaining = NoQueue
    /\ last_prompt_id = 0
    /\ current_queue = NoQueue
    /\ events = << >>
    /\ rqueue = << >>
    /\ running = FALSE
    /\ history = {}
    /\ disk = [j \in JobIds |-> "absent"]

\* What a process holds when its lifespan has started its background task, and
\* what the model has recorded of it, whatever the jobs table it found.
FreshProcess ==
    /\ job = 0
    /\ session = Clean
    /\ PROCESSING_LOCK = FALSE
    /\ MODELS = FALSE
    /\ LAST_JOB_TIMESTAMP = NoTimestamp
    /\ active_connections = {}
    /\ sockets = [j \in JobIds |-> << >>]
    /\ delivered = [j \in JobIds |-> << >>]
    /\ did = ""
    /\ worker = [j \in JobIds |-> ""]
    /\ polling = {}
    /\ http = NoRequest
    /\ handlers = [j \in JobIds |-> ""]
    /\ last_queue_remaining = NoQueue
    /\ last_prompt_id = 0
    /\ current_queue = NoQueue
    /\ events = << >>
    /\ rqueue = << >>
    /\ running = FALSE
    /\ history = {}
    /\ disk = [j \in JobIds |-> "absent"]

\* The event loop runs a request handler only while worker_loop is suspended at
\* an await (or has ended).  Between the claim's commit and the next await
\* IndexTTS2 (load_models) and MuseTalk (run_inference_task) run without one.
\* ComfyUI's /execute runs from its insert to its POST to the renderer without one.
\* No request is served before the lifespan's startup part has run, nor after
\* its shutdown part.
SubmitBusy == \E j \in JobIds : handlers[j] \in {"inserted", "inserted_bad"}
HandlerCanRun ==
    /\ pc # "startup" /\ pc # "stopped"
    /\ (pc # "claimed" \/ gk = "Wan2GP")
    /\ ~SubmitBusy

\* Time passes.  ComfyUI reads the clock at startup only (cleanup_old_jobs) and
\* for created_at, which nothing of it reads afterwards: its clock stands still.
Tick ==
    /\ gk # "ComfyUI"
    /\ now < MaxTicks * TickSeconds
    /\ now' = now + TickSeconds
    /\ http' = NoRequest
    /\ did' = ""
    /\ UNCHANGED <<gk, worker, jobs, pc, job, session, PROCESSING_LOCK, MODELS,
                   LAST_JOB_TIMESTAMP, active_connections, sockets, delivered, polling, cvars>>

\* PendingFirst that takes 'failed' rows again, as a retry would.
PendingFirst_retry ==
    {j \in 1..Len(jobs) :
        /\ jobs[j].status \in {"pending", "failed"}
        /\ \A k \in 1..Len(jobs) :
              jobs[k].status = "pending" => jobs[j].created_at <= jobs[k].created_at}

\* db.query(Job).filter(Job.status == "pending").order_by(Job.created_at).first():
\* the rows the query may return.  created_at is the only sort key, so among
\* pending rows of equal created_at the database decides.
PendingFirst ==
    {j \in 1..Len(jobs) :
        /\ jobs[j].status = "pending"
        /\ \A k \in 1..Len(jobs) :
              jobs[k].status = "pending" => jobs[j].created_at <= jobs[k].created_at}

\* Claim without the db.commit() that follows job.status = "processing".
Claim_uncommitted(j) ==
    /\ job' = j
    /\ jobs' = jobs
    /\ PROCESSING_LOCK' = TRUE
    /\ pc' = "claimed"

\* Claim in a worker_loop whose iteration does not take PROCESSING_LOCK.
Claim_without_lock(j) ==
    /\ job' = j
    /\ jobs' = Commit(j, "processing", jobs[j].result_data)
    /\ PROCESSING_LOCK' = FALSE
    /\ pc' = "claimed"

\* if job: job.status = "processing"; db.commit() -- under the lock
Claim(j) ==
    /\ job' = j
    /\ jobs' = Commit(j, "processing", jobs[j].result_data)
    /\ PROCESSING_LOCK' = TRUE
    /\ pc' = "claimed"

\* load_models(): nothing when MODELS is non-empty; else the engine is built and
\* stored in MODELS, or building it raises before anything is stored.
load_models(ok) ==
    IF MODELS THEN did' = "" /\ UNCHANGED MODELS
    ELSE IF ok THEN did' = "loaded" /\ MODELS' = TRUE
    ELSE did' = "load_raised" /\ MODELS' = FALSE

\* IdleCheck with >= in the place of >: unload_models at the timeout, not after it.
IdleCheck_at_timeout ==
    IF MODELS /\ LAST_JOB_TIMESTAMP # NoTimestamp
       /\ now - LAST_JOB_TIMESTAMP >= IDLE_TIMEOUT_SECONDS
    THEN MODELS' = FALSE /\ LAST_JOB_TIMESTAMP' = NoTimestamp /\ did' = "unloaded"
    ELSE did' = "" /\ UNCHANGED <<MODELS, LAST_JOB_TIMESTAMP>>

\* IdleCheck without the test of MODELS: unload_models on every expired timestamp.
IdleCheck_unguarded ==
    IF LAST_JOB_TIMESTAMP # NoTimestamp /\ now - LAST_JOB_TIMESTAMP > IDLE_TIMEOUT_SECONDS
    THEN MODELS' = FALSE /\ LAST_JOB_TIMESTAMP' = NoTimestamp /\ did' = "unloaded"
    ELSE did' = "" /\ UNCHANGED <<MODELS, LAST_JOB_TIMESTAMP>>

\* elif MODELS and LAST_JOB_TIMESTAMP and (now - LAST_JOB_TIMESTAMP) > IDLE_TIMEOUT_SECONDS:
\*     unload_models(); LAST_JOB_TIMESTAMP = None
IdleCheck ==
    IF MODELS /\ LAST_JOB_TIMESTAMP # NoTimestamp
       /\ now - LAST_JOB_TIMESTAMP > IDLE_TIMEOUT_SECONDS
    THEN MODELS' = FALSE /\ LAST_JOB_TIMESTAMP' = NoTimestamp /\ did' = "unloaded"
    ELSE did' = "" /\ UNCHANGED <<MODELS, LAST_JOB_TIMESTAMP>>

\* The end of an iteration that had a job: LAST_JOB_TIMESTAMP = datetime.now(),
\* db.close(), the lock block ends, asyncio.sleep(1).
EndIteration ==
    /\ LAST_JOB_TIMESTAMP' = now
    /\ PROCESSING_LOCK' = FALSE
    /\ job' = 0
    /\ session' = Clean
    /\ pc' = "sleep"

\* manager.send_json(job_id, data): a send is attempted only for a registered
\* job id; an exception of the send is caught and printed.
\* The websocket registered for j is the one of the latest connect: connect
\* overwrites the entry, and disconnect deletes it whoever disconnects.
send_json(j, body, ok) ==
    IF j \in active_connections
    THEN [delivered EXCEPT ![j] = Append(@, [via |-> "websocket", body |-> body, ok |-> ok,
                                            to |-> sockets[j][Len(sockets[j])]])]
    ELSE delivered

----------------------------------------------------------------------------
\* IndexTTS2

\* POST /execute
execute_task ==
    /\ gk = "IndexTTS2"
    /\ HandlerCanRun
    /\ Len(jobs) < MaxJobs
    /\ \E missing \in BOOLEAN :
          IF missing
          THEN /\ http' = [missing |-> TRUE, code |-> 400]
               /\ UNCHANGED jobs
          ELSE /\ jobs' = Insert(NewRow("websocket", None, FALSE))
               /\ http' = [missing |-> FALSE, code |-> 200]
    /\ did' = ""
    /\ UNCHANGED <<gk, worker, now, pc, job, session, PROCESSING_LOCK, MODELS,
                   LAST_JOB_TIMESTAMP, active_connections, sockets, delivered, polling, cvars>>

\* worker_loop, from the lock to the claim's commit or to the end of an idle iteration.
Idx_worker_loop_poll ==
    /\ gk = "IndexTTS2"
    /\ pc = "sleep"
    /\ IF PendingFirst # {}
       THEN /\ \E j \in PendingFirst : Claim(j)
            /\ LAST_JOB_TIMESTAMP' = NoTimestamp
            /\ did' = ""
            /\ UNCHANGED MODELS
       ELSE /\ IdleCheck
            /\ UNCHANGED <<jobs, job, PROCESSING_LOCK, pc>>
    /\ http' = NoRequest
    /\ UNCHANGED <<gk, worker, now, session, active_connections, sockets, delivered, polling, cvars>>

\* Idx_worker_loop_load with a load_models that prints its exception and
\* returns: the try block goes on to the inference.
Idx_worker_loop_load_swallowed ==
    /\ gk = "IndexTTS2"
    /\ pc = "claimed"
    /\ \E loaded \in BOOLEAN :
          /\ MODELS => loaded
          /\ load_models(loaded)
    /\ pc' = "run"
    /\ http' = NoRequest
    /\ UNCHANGED <<gk, now, job, jobs, delivered, worker, session, PROCESSING_LOCK,
                   LAST_JOB_TIMESTAMP, active_connections, sockets, polling, cvars>>

\* await load_models(): nothing when loaded; else the load succeeds or raises.
\* The except branch fails the job, commits and sends the error.
Idx_worker_loop_load ==
    /\ gk = "IndexTTS2"
    /\ pc = "claimed"
    /\ \E loaded \in BOOLEAN :
          /\ MODELS => loaded
          /\ load_models(loaded)
          /\ IF loaded
             THEN /\ pc' = "run"
                  /\ UNCHANGED <<jobs, delivered, worker>>
             ELSE /\ worker' = [worker EXCEPT ![job] = "raised"]
                  /\ jobs' = Commit(job, "failed", Traceback)
                  /\ \E ok \in BOOLEAN : delivered' = send_json(job, "error", ok)
                  /\ pc' = "send"
    /\ http' = NoRequest
    /\ UNCHANGED <<gk, now, job, session, PROCESSING_LOCK, LAST_JOB_TIMESTAMP,
                   active_connections, sockets, polling, cvars>>

\* run_in_executor(run_inference_blocking) returns or raises; commit; send.
Idx_worker_loop_finish ==
    /\ gk = "IndexTTS2"
    /\ pc = "run"
    /\ \E success \in BOOLEAN, ok \in BOOLEAN :
          IF success
          THEN /\ worker' = [worker EXCEPT ![job] = "returned"]
               /\ jobs' = Commit(job, "completed", FilePath)
               /\ delivered' = send_json(job, "filePath", ok)
          ELSE /\ worker' = [worker EXCEPT ![job] = "raised"]
               /\ jobs' = Commit(job, "failed", Traceback)
               /\ delivered' = send_json(job, "error", ok)
    /\ pc' = "send"
    /\ http' = NoRequest
    /\ did' = ""
    /\ UNCHANGED <<gk, now, job, session, PROCESSING_LOCK, MODELS, LAST_JOB_TIMESTAMP,
                   active_connections, sockets, polling, cvars>>

\* After the send.
Idx_worker_loop_end ==
    /\ gk = "IndexTTS2"
    /\ pc = "send"
    /\ EndIteration
    /\ http' = NoRequest
    /\ did' = ""
    /\ UNCHANGED <<gk, worker, jobs, now, MODELS, active_connections, sockets, delivered, polling, cvars>>

----------------------------------------------------------------------------
\* IndexTTS2, MuseTalk and ComfyUI: /ws/{job_id}

\* The clients that may open /ws/{job_id}.
Clients == 1..MaxClients

\* manager.connect(job_id, websocket): accept, then
\* self.active_connections[job_id] = websocket, whatever was registered.
connect(j, c) ==
    /\ sockets' = [sockets EXCEPT ![j] = Append(@, c)]
    /\ active_connections' = active_connections \cup {j}

\* A client opens /ws/{job_id} for a job nobody is connected for.
websocket_connect ==
    /\ gk \in {"IndexTTS2", "MuseTalk", "ComfyUI"}
    /\ HandlerCanRun
    /\ \E j \in 1..Len(jobs) :
          /\ jobs[j].callback_type = "websocket"
          /\ sockets[j] = << >>
          /\ connect(j, 1)
    /\ http' = NoRequest
    /\ did' = ""
    /\ UNCHANGED <<gk, worker, jobs, now, pc, job, session, PROCESSING_LOCK, MODELS,
                   LAST_JOB_TIMESTAMP, delivered, polling, cvars>>

\* A further client opens /ws/{job_id} while another is connected for the job.
websocket_connect_another ==
    /\ gk \in {"IndexTTS2", "MuseTalk"}
    /\ HandlerCanRun
    /\ \E j \in 1..Len(jobs), c \in Clients :
          /\ jobs[j].callback_type = "websocket"
          /\ sockets[j] # << >>
          /\ \A i \in 1..Len(sockets[j]) : sockets[j][i] # c
          /\ connect(j, c)
    /\ http' = NoRequest
    /\ did' = ""
    /\ UNCHANGED <<gk, worker, jobs, now, pc, job, session, PROCESSING_LOCK, MODELS,
                   LAST_JOB_TIMESTAMP, delivered, polling, cvars>>

\* A client goes away: its receive_text() raises WebSocketDisconnect and the
\* handler calls manager.disconnect(job_id), which deletes the job's entry.
websocket_disconnect ==
    /\ gk \in {"IndexTTS2", "MuseTalk", "ComfyUI"}
    /\ HandlerCanRun
    /\ \E j \in 1..Len(jobs) : \E i \in 1..Len(sockets[j]) :
          /\ sockets' = [sockets EXCEPT ![j] =
                            SubSeq(@, 1, i - 1) \o SubSeq(@, i + 1, Len(@))]
          /\ active_connections' = active_connections \ {j}
    /\ http' = NoRequest
    /\ did' = ""
    /\ UNCHANGED <<gk, worker, jobs, now, pc, job, session, PROCESSING_LOCK, MODELS,
                   LAST_JOB_TIMESTAMP, delivered, polling, cvars>>

----------------------------------------------------------------------------
\* MuseTalk

\* The callback settings a submission may carry: params.get("callback_type",
\* "websocket"), params.get("callback_url"), params.get("webhook_binary_output", False).
MuseCallbacks ==
    { <<"websocket", None, FALSE>>, <<"webhook", URL, FALSE>>,
      <<"webhook", URL, TRUE>>, <<"webhook", None, FALSE>> }

\* POST /execute
execute_musetalk ==
    /\ gk = "MuseTalk"
    /\ HandlerCanRun
    /\ Len(jobs) < MaxJobs
    /\ \E missing \in BOOLEAN :
          IF missing
          THEN /\ http' = [missing |-> TRUE, code |-> 400]
               /\ UNCHANGED jobs
          ELSE /\ \E c \in MuseCallbacks : jobs' = Insert(NewRow(c[1], c[2], c[3]))
               /\ http' = [missing |-> FALSE, code |-> 200]
    /\ did' = ""
    /\ UNCHANGED <<gk, worker, now, pc, job, session, PROCESSING_LOCK, MODELS,
                   LAST_JOB_TIMESTAMP, active_connections, sockets, delivered, polling, cvars>>

\* async with httpx.AsyncClient() as c: await c.post(job.callback_url, ...):
\* the log after the call.  A null url raises before any request is made; else
\* the request goes out and the endpoint answers (ok) or the transport raises.
post(j, body, ok) ==
    IF jobs[j].callback_url = None
    THEN delivered
    ELSE [delivered EXCEPT ![j] = Append(@, [via |-> "webhook", body |-> body, ok |-> ok,
                                            to |-> 0])]

\* Whether the POST worker_loop awaits for row j raised.
PostRaised(j) ==
    \/ jobs[j].callback_url = None
    \/ ~delivered[j][Len(delivered[j])].ok

\* db.commit() of the session's changes to `job`, then the end of the iteration.
CommitSessionAndEnd(s) ==
    /\ jobs' = Commit(job, s.status, s.result_data)
    /\ EndIteration

\* The delivery of session state s: a webhook POST (awaited), or send_json, which
\* awaits only when the job id is registered.
Deliver(s, body, errpc) ==
    IF jobs[job].callback_type = "webhook"
    THEN /\ \E ok \in BOOLEAN : delivered' = post(job, body, ok)
         /\ session' = s
         /\ pc' = errpc
         /\ UNCHANGED <<jobs, job, PROCESSING_LOCK, LAST_JOB_TIMESTAMP>>
    ELSE IF job \in active_connections
         THEN /\ \E ok \in BOOLEAN : delivered' = send_json(job, body, ok)
              /\ session' = s
              /\ pc' = "send"
              /\ UNCHANGED <<jobs, job, PROCESSING_LOCK, LAST_JOB_TIMESTAMP>>
         ELSE /\ CommitSessionAndEnd(s)
              /\ UNCHANGED delivered

\* worker_loop, from the lock to the claim's commit or to the end of an idle iteration.
Muse_worker_loop_poll ==
    /\ gk = "MuseTalk"
    /\ pc = "sleep"
    /\ IF PendingFirst # {}
       THEN /\ \E j \in PendingFirst : Claim(j)
            /\ LAST_JOB_TIMESTAMP' = NoTimestamp
            /\ did' = ""
            /\ UNCHANGED MODELS
       ELSE /\ IdleCheck
            /\ UNCHANGED <<jobs, job, PROCESSING_LOCK, pc>>
    /\ http' = NoRequest
    /\ UNCHANGED <<gk, worker, now, session, active_connections, sockets, delivered, polling, cvars>>

\* run_inference_task(job) (load_models, then the inference: each returns or
\* raises), the move, and the try or except branch up to its first await.
Muse_worker_loop_run ==
    /\ gk = "MuseTalk"
    /\ pc = "claimed"
    /\ \E loaded \in BOOLEAN, success \in BOOLEAN :
          /\ MODELS => loaded
          /\ load_models(loaded)
          /\ worker' = [worker EXCEPT ![job] =
                           IF loaded /\ success THEN "returned" ELSE "raised"]
          /\ IF loaded /\ success
             THEN Deliver([status |-> "completed", result_data |-> FilePath],
                          IF jobs[job].webhook_binary_output THEN "file" ELSE "filePath",
                          "post")
             ELSE Deliver([status |-> "failed", result_data |-> Traceback],
                          "error", "post_error")
    /\ http' = NoRequest
    /\ UNCHANGED <<gk, now, active_connections, sockets, polling, cvars>>

\* The POST of the try branch returned, or raised into the except branch.
Muse_worker_loop_post ==
    /\ gk = "MuseTalk"
    /\ pc = "post"
    /\ IF PostRaised(job)
       THEN /\ session' = [status |-> "failed", result_data |-> Traceback]
            /\ \E ok \in BOOLEAN : delivered' = post(job, "error", ok)
            /\ pc' = "post_error"
            /\ UNCHANGED <<jobs, job, PROCESSING_LOCK, LAST_JOB_TIMESTAMP>>
       ELSE /\ CommitSessionAndEnd(session)
            /\ UNCHANGED delivered
    /\ http' = NoRequest
    /\ did' = ""
    /\ UNCHANGED <<gk, worker, now, MODELS, active_connections, sockets, polling, cvars>>

\* The POST of the except branch returned, or raised: nothing catches that, the
\* finally closes the session, the lock block ends and worker_loop ends.
Muse_worker_loop_post_error ==
    /\ gk = "MuseTalk"
    /\ pc = "post_error"
    /\ IF PostRaised(job)
       THEN /\ session' = Clean
            /\ PROCESSING_LOCK' = FALSE
            /\ pc' = "dead"
            /\ UNCHANGED <<jobs, job, LAST_JOB_TIMESTAMP>>
       ELSE CommitSessionAndEnd(session)
    /\ http' = NoRequest
    /\ did' = ""
    /\ UNCHANGED <<gk, worker, now, MODELS, active_connections, sockets, delivered, polling, cvars>>

\* Muse_worker_loop_sent with a send_json that lets the send's exception out:
\* it lands in worker_loop's except branch, which fails the job.
Muse_worker_loop_sent_uncaught ==
    /\ gk = "MuseTalk"
    /\ pc = "send"
    /\ IF delivered[job][Len(delivered[job])].ok
       THEN CommitSessionAndEnd(session)
       ELSE CommitSessionAndEnd([status |-> "failed", result_data |-> Traceback])
    /\ http' = NoRequest
    /\ did' = ""
    /\ UNCHANGED <<gk, worker, now, MODELS, active_connections, sockets, delivered, polling, cvars>>

\* send_json returned.
Muse_worker_loop_sent ==
    /\ gk = "MuseTalk"
    /\ pc = "send"
    /\ CommitSessionAndEnd(session)
    /\ http' = NoRequest
    /\ did' = ""
    /\ UNCHANGED <<gk, worker, now, MODELS, active_connections, sockets, delivered, polling, cvars>>

\* GET /status: the counts of pending and processing rows and whether the
\* engine is loaded; nothing of any job's result.
get_status ==
    /\ gk = "MuseTalk"
    /\ HandlerCanRun
    /\ http' = [missing |-> FALSE, code |-> 200,
                body |-> [models_loaded |-> MODELS,
                          jobs_in_queue |->
                              Cardinality({j \in 1..Len(jobs) : jobs[j].status = "pending"}),
                          jobs_processing |->
                              Cardinality({j \in 1..Len(jobs) : jobs[j].status = "processing"})]]
    /\ did' = ""
    /\ UNCHANGED <<gk, worker, jobs, now, pc, job, session, PROCESSING_LOCK, MODELS,
                   LAST_JOB_TIMESTAMP, active_connections, sockets, delivered, polling, cvars>>

----------------------------------------------------------------------------
\* Wan2GP

\* POST /generate up to its polling loop: compile_job_parameters raises
\* HTTPException(400) for a workflow the manifest does not have; else the row is
\* inserted and the handler starts polling.
execute_generation ==
    /\ gk = "Wan2GP"
    /\ pc # "stopped"
    /\ Len(jobs) < MaxJobs
    /\ \E known \in BOOLEAN :
          IF ~known
          THEN /\ http' = [missing |-> FALSE, code |-> 400]
               /\ UNCHANGED <<jobs, polling>>
          ELSE /\ jobs' = Insert(NewRow(None, None, FALSE))
               /\ polling' = polling \cup {Len(jobs) + 1}
               /\ http' = NoRequest
    /\ did' = ""
    /\ UNCHANGED <<gk, worker, now, pc, job, session, PROCESSING_LOCK, MODELS,
                   LAST_JOB_TIMESTAMP, active_connections, sockets, delivered, cvars>>

\* The polling loop of /generate: db.refresh(new_job) after a sleep; it answers
\* once the status is completed or failed.
\* The answer of /generate for row j: HTTPException(500, detail = result_path)
\* or {"status": "completed", "job_id": ..., "filePath": result_path}.
GenerateAnswer(j) ==
    IF jobs[j].status = "failed"
    THEN [missing |-> FALSE, code |-> 500, detail |-> jobs[j].result_data]
    ELSE [missing |-> FALSE, code |-> 200, status |-> "completed",
          filePath |-> jobs[j].result_data]

\* execute_generation_poll without the polling loop: the handler refreshes the
\* row once and answers.
execute_generation_poll_once ==
    /\ gk = "Wan2GP"
    /\ pc # "stopped"
    /\ \E j \in polling :
          /\ polling' = polling \ {j}
          /\ http' = GenerateAnswer(j)
    /\ did' = ""
    /\ UNCHANGED <<gk, worker, jobs, now, pc, job, session, PROCESSING_LOCK, MODELS,
                   LAST_JOB_TIMESTAMP, active_connections, sockets, delivered, cvars>>

execute_generation_poll ==
    /\ gk = "Wan2GP"
    /\ pc # "stopped"
    /\ \E j \in polling :
          IF jobs[j].status \in {"completed", "failed"}
          THEN /\ polling' = polling \ {j}
               /\ http' = GenerateAnswer(j)
          ELSE /\ UNCHANGED polling
               /\ http' = NoRequest
    /\ did' = ""
    /\ UNCHANGED <<gk, worker, jobs, now, pc, job, session, PROCESSING_LOCK, MODELS,
                   LAST_JOB_TIMESTAMP, active_connections, sockets, delivered, cvars>>

\* worker_loop, from the lock to the claim's commit.
Wan_worker_loop_poll ==
    /\ gk = "Wan2GP"
    /\ pc = "sleep"
    /\ IF PendingFirst # {}
       THEN \E j \in PendingFirst : Claim(j)
       ELSE UNCHANGED <<jobs, job, PROCESSING_LOCK, pc>>
    /\ http' = NoRequest
    /\ did' = ""
    /\ UNCHANGED <<gk, worker, now, session, MODELS, LAST_JOB_TIMESTAMP, active_connections, sockets,
                   delivered, polling, cvars>>

\* Wan_worker_loop_run without the final db.commit(): the row stays as claimed.
Wan_worker_loop_run_uncommitted ==
    /\ gk = "Wan2GP"
    /\ pc = "claimed"
    /\ \E success \in BOOLEAN :
          worker' = [worker EXCEPT ![job] = IF success THEN "returned" ELSE "raised"]
    /\ PROCESSING_LOCK' = FALSE
    /\ job' = 0
    /\ pc' = "sleep"
    /\ http' = NoRequest
    /\ did' = ""
    /\ UNCHANGED <<gk, jobs, now, session, MODELS, LAST_JOB_TIMESTAMP, active_connections, sockets,
                   delivered, polling, cvars>>

\* run_inference_task(job) returns or raises; commit; the end of the iteration.
Wan_worker_loop_run ==
    /\ gk = "Wan2GP"
    /\ pc = "claimed"
    /\ \E success \in BOOLEAN :
          /\ worker' = [worker EXCEPT ![job] = IF success THEN "returned" ELSE "raised"]
          /\ jobs' = IF success THEN Commit(job, "completed", FilePath)
                                ELSE Commit(job, "failed", Traceback)
    /\ PROCESSING_LOCK' = FALSE
    /\ job' = 0
    /\ pc' = "sleep"
    /\ http' = NoRequest
    /\ did' = ""
    /\ UNCHANGED <<gk, now, session, MODELS, LAST_JOB_TIMESTAMP, active_connections, sockets,
                   delivered, polling, cvars>>

----------------------------------------------------------------------------
\* The Job Store fails worker_loop (all three services)

\* db.query(Job)...first() raises (sqlite3 "database is locked", disk I/O error):
\* the try around it has only `finally: db.close()`, so the exception leaves the
\* `async with` (which releases the lock) and the `while True`: the task ends.
worker_loop_query_raises ==
    /\ gk # "ComfyUI"
    /\ pc = "sleep"
    /\ pc' = "dead"
    /\ did' = "query_raised"
    /\ http' = NoRequest
    /\ UNCHANGED <<gk, jobs, now, job, session, PROCESSING_LOCK, MODELS, LAST_JOB_TIMESTAMP,
                   active_connections, sockets, delivered, worker, polling, cvars>>

----------------------------------------------------------------------------
\* ComfyUI

Path == "/out/file"
Outputs == "outputs"

\* history_data[prompt_id].get('outputs', {}): what the renderer's history holds
\* for prompt p.
OutputsOf(p) == Outputs \o ToString(p)

\* The callback and output settings a submission may carry: callback_type,
\* callback_url, and output_format, output_path from user_inputs.outputAsFilePath
\* and user_inputs.outputFilePath.
ComfyCallbacks ==
    { <<"websocket", None, "binary", None>>, <<"webhook", URL, "binary", None>>,
      <<"webhook", URL, "filePath", Path>>, <<"webhook", None, "binary", None>> }

\* The fields /execute reads with payload[...]
RequiredFields ==
    {"n8n_execution_id", "callback_type", "workflow_template", "user_inputs", "mappings"}

\* new_job = Job(..., status="pending_submission")
ComfyRow(c) ==
    [status |-> "pending_submission", result_data |-> None, created_at |-> now,
     callback_type |-> c[1], callback_url |-> c[2], output_format |-> c[3],
     output_path |-> c[4], comfy_prompt_id |-> 0]

\* A message of the renderer's websocket.
StatusEvent(n) == [type |-> "status", queue_remaining |-> n, prompt_id |-> 0]
ExecutingEvent(p) == [type |-> "executing", queue_remaining |-> NoQueue, prompt_id |-> p]

\* POST /execute up to the insert's commit.  payload['n8n_execution_id'] and
\* payload['callback_type'] are read while the row is built: a KeyError there
\* leaves the handler (the framework answers 500).  The other fields are read
\* inside the try block, after the commit.
execute_workflow ==
    /\ gk = "ComfyUI"
    /\ HandlerCanRun
    /\ Len(jobs) < MaxJobs
    /\ \E miss \in RequiredFields \cup {""} :
          IF miss \in {"n8n_execution_id", "callback_type"}
          THEN /\ http' = [missing |-> TRUE, code |-> 500]
               /\ UNCHANGED <<jobs, handlers>>
          ELSE /\ \E c \in ComfyCallbacks : jobs' = Insert(ComfyRow(c))
               /\ handlers' = [handlers EXCEPT ![Len(jobs) + 1] =
                                  IF miss = "" THEN "inserted" ELSE "inserted_bad"]
               /\ http' = NoRequest
    /\ UNCHANGED <<gk, now, pc, job, active_connections, sockets, delivered, wvars,
                   last_queue_remaining, last_prompt_id, current_queue, events,
                   rqueue, running, history, disk>>

\* The try block of /execute up to its await: a KeyError goes to the except
\* branch (submission_failed, commit, 500); else the prompt is posted to the
\* renderer, which queues it and announces its queue, or does not take it.
execute_workflow_submit ==
    /\ gk = "ComfyUI"
    /\ \E j \in 1..Len(jobs) :
          \/ /\ handlers[j] = "inserted_bad"
             /\ jobs' = Commit(j, "submission_failed", jobs[j].result_data)
             /\ handlers' = [handlers EXCEPT ![j] = ""]
             /\ http' = [missing |-> TRUE, code |-> 500]
             /\ UNCHANGED <<rqueue, events>>
          \/ /\ handlers[j] = "inserted"
             /\ \E accepted \in BOOLEAN :
                   IF accepted
                   THEN /\ rqueue' = Append(rqueue, j)
                        /\ events' = Append(events, StatusEvent(Len(rqueue) + 1))
                        /\ handlers' = [handlers EXCEPT ![j] = "posted"]
                   ELSE /\ handlers' = [handlers EXCEPT ![j] = "refused"]
                        /\ UNCHANGED <<rqueue, events>>
             /\ http' = NoRequest
             /\ UNCHANGED jobs
    /\ UNCHANGED <<gk, now, pc, job, active_connections, sockets, delivered, wvars,
                   last_queue_remaining, last_prompt_id, current_queue,
                   running, history, disk>>

\* The renderer's answer reaches /execute: prompt_id and "queued" are committed;
\* an error answer, or none in time, goes to the except branch.
execute_workflow_response ==
    /\ gk = "ComfyUI"
    /\ ~SubmitBusy
    /\ \E j \in 1..Len(jobs), answered \in BOOLEAN :
          /\ handlers[j] \in {"posted", "refused"}
          /\ IF handlers[j] = "posted" /\ answered
             THEN /\ jobs' = [jobs EXCEPT ![j].comfy_prompt_id = j, ![j].status = "queued"]
                  /\ http' = [missing |-> FALSE, code |-> 200]
             ELSE /\ jobs' = Commit(j, "submission_failed", jobs[j].result_data)
                  /\ http' = [missing |-> FALSE, code |-> 500]
          /\ handlers' = [handlers EXCEPT ![j] = ""]
    /\ UNCHANGED <<gk, now, pc, job, active_connections, sockets, delivered, wvars,
                   last_queue_remaining, last_prompt_id, current_queue, events,
                   rqueue, running, history, disk>>

\* The renderer starts the oldest prompt of its queue and says so.
renderer_start ==
    /\ gk = "ComfyUI"
    /\ rqueue # << >>
    /\ ~running
    /\ running' = TRUE
    /\ events' = Append(events, ExecutingEvent(Head(rqueue)))
    /\ http' = NoRequest
    /\ UNCHANGED <<gk, jobs, now, pc, job, active_connections, sockets, delivered, wvars,
                   handlers, last_queue_remaining, last_prompt_id, current_queue,
                   rqueue, history, disk>>

\* The renderer finishes its prompt: the workflow's output nodes have written
\* one file or several, the history has the prompt, the queue shrinks and is
\* announced.
renderer_finish ==
    /\ gk = "ComfyUI"
    /\ running
    /\ running' = FALSE
    /\ history' = history \cup {Head(rqueue)}
    /\ \E written \in {"source", "sources"} :
          disk' = [disk EXCEPT ![Head(rqueue)] = written]
    /\ rqueue' = Tail(rqueue)
    /\ events' = Append(events, StatusEvent(Len(rqueue) - 1))
    /\ http' = NoRequest
    /\ UNCHANGED <<gk, jobs, now, pc, job, active_connections, sockets, delivered, wvars,
                   handlers, last_queue_remaining, last_prompt_id, current_queue>>

\* db.query(Job).filter(Job.comfy_prompt_id == prompt_id).first(), 0 for None
JobOfPrompt(p) ==
    IF p \in 1..Len(jobs) /\ jobs[p].comfy_prompt_id = p THEN p ELSE 0

\* handle_job_completion returns to the listener: last_queue_remaining = current_queue
ReturnToListener(q) ==
    /\ last_queue_remaining' = q
    /\ current_queue' = NoQueue
    /\ job' = 0
    /\ pc' = "listen"

\* The signal handle_job_completion is called for: a status message whose
\* queue_remaining is below the last one seen, with a last_prompt_id.
CompletionSignal ==
    /\ events # << >>
    /\ Head(events).type = "status"
    /\ last_queue_remaining # NoQueue
    /\ Head(events).queue_remaining < last_queue_remaining
    /\ last_prompt_id # 0

\* listen_to_comfyui whose handle_job_completion does not test for 'completed'.
listen_to_comfyui_recompletes ==
    /\ gk = "ComfyUI"
    /\ pc = "listen"
    /\ ~SubmitBusy
    /\ events # << >>
    /\ events' = Tail(events)
    /\ LET m == Head(events) IN
          IF m.type = "executing"
          THEN /\ last_prompt_id' = m.prompt_id
               /\ did' = ""
               /\ UNCHANGED <<last_queue_remaining, current_queue, job, pc>>
          ELSE /\ IF CompletionSignal /\ JobOfPrompt(last_prompt_id) # 0
                  THEN /\ job' = JobOfPrompt(last_prompt_id)
                       /\ current_queue' = m.queue_remaining
                       /\ pc' = "history"
                       /\ did' = ""
                       /\ UNCHANGED last_queue_remaining
                  ELSE /\ ReturnToListener(m.queue_remaining)
                       /\ did' = ""
               /\ UNCHANGED last_prompt_id
    /\ http' = NoRequest
    /\ UNCHANGED <<gk, jobs, now, active_connections, sockets, delivered, handlers, rqueue,
                   running, history, disk, session, PROCESSING_LOCK, MODELS,
                   LAST_JOB_TIMESTAMP, worker, polling>>

\* listen_to_comfyui takes one message, up to the first await of
\* handle_job_completion (the history request) when it calls it.
\* handle_job_completion returns at once for a prompt id no row has, or whose
\* row is already 'completed' (did = "repeat").
listen_to_comfyui ==
    /\ gk = "ComfyUI"
    /\ pc = "listen"
    /\ ~SubmitBusy
    /\ events # << >>
    /\ events' = Tail(events)
    /\ LET m == Head(events) IN
          IF m.type = "executing"
          THEN /\ last_prompt_id' = m.prompt_id
               /\ did' = ""
               /\ UNCHANGED <<last_queue_remaining, current_queue, job, pc>>
          ELSE /\ IF /\ CompletionSignal
                     /\ JobOfPrompt(last_prompt_id) # 0
                     /\ jobs[JobOfPrompt(last_prompt_id)].status # "completed"
                  THEN /\ job' = JobOfPrompt(last_prompt_id)
                       /\ current_queue' = m.queue_remaining
                       /\ pc' = "history"
                       /\ did' = ""
                       /\ UNCHANGED last_queue_remaining
                  ELSE /\ ReturnToListener(m.queue_remaining)
                       /\ did' = IF CompletionSignal /\ JobOfPrompt(last_prompt_id) # 0
                                 THEN "repeat" ELSE ""
               /\ UNCHANGED last_prompt_id
    /\ http' = NoRequest
    /\ UNCHANGED <<gk, jobs, now, active_connections, sockets, delivered, handlers, rqueue,
                   running, history, disk, session, PROCESSING_LOCK, MODELS,
                   LAST_JOB_TIMESTAMP, worker, polling>>

\* A prompt of another client of the renderer enters its queue and leaves it
\* (run or deleted) while the listener has nothing to read: status messages go
\* to every client, 'executing' messages only to the client of the prompt.
renderer_foreign ==
    /\ gk = "ComfyUI"
    /\ events = << >>
    /\ events' = <<StatusEvent(Len(rqueue) + 1), StatusEvent(Len(rqueue))>>
    /\ http' = NoRequest
    /\ UNCHANGED <<gk, jobs, now, pc, job, active_connections, sockets, delivered, wvars,
                   handlers, last_queue_remaining, last_prompt_id, current_queue,
                   rqueue, running, history, disk>>

\* format_and_handle_files(job, output_data): where the output is afterwards.
\* A webhook job with filePath format has every file moved to output_path; a
\* webhook job with binary format has every file read and removed; a websocket
\* job leaves them.
format_and_handle_files(j) ==
    IF disk[j] \in {"source", "sources"} /\ jobs[j].callback_type = "webhook"
    THEN IF jobs[j].output_format = "filePath"
         THEN (IF jobs[j].output_path # None THEN "dest" ELSE "source")
         ELSE "removed"
    ELSE disk[j]

\* The form of the payload handle_job_completion sends.  format_and_handle_files
\* returns results[0] only when there is exactly one result, else the JSON
\* object {"format": "multiple", "results": [...]}; the POST is multipart only
\* for a binary job whose payload has a 'data' key, JSON otherwise.
PayloadForm(j) ==
    IF disk[j] = "sources" THEN "multiple"
    ELSE IF jobs[j].callback_type = "webhook" /\ jobs[j].output_format = "binary"
    THEN "file" ELSE "filePath"

\* handle_job_completion without `if prompt_id not in history_data: return`.
handle_job_completion_unchecked ==
    /\ gk = "ComfyUI"
    /\ pc = "history"
    /\ ~SubmitBusy
    /\ \E answered \in BOOLEAN, ok \in BOOLEAN :
          IF ~answered
          THEN /\ ReturnToListener(current_queue)
               /\ UNCHANGED <<jobs, disk, delivered>>
          ELSE /\ jobs' = Commit(job, "completed", OutputsOf(jobs[job].comfy_prompt_id))
               /\ disk' = [disk EXCEPT ![job] = format_and_handle_files(job)]
               /\ IF jobs[job].callback_type = "websocket"
                  THEN /\ delivered' = send_json(job, PayloadForm(job), ok)
                       /\ IF job \in active_connections
                          THEN /\ pc' = "deliver"
                               /\ UNCHANGED <<last_queue_remaining, current_queue, job>>
                          ELSE ReturnToListener(current_queue)
                  ELSE IF jobs[job].callback_type = "webhook" /\ jobs[job].callback_url # None
                       THEN /\ delivered' = post(job, PayloadForm(job), ok)
                            /\ pc' = "deliver"
                            /\ UNCHANGED <<last_queue_remaining, current_queue, job>>
                       ELSE /\ ReturnToListener(current_queue)
                            /\ UNCHANGED delivered
    /\ http' = NoRequest
    /\ UNCHANGED <<gk, now, active_connections, sockets, wvars,
                   handlers, last_prompt_id, events, rqueue, running, history>>

\* handle_job_completion from the history answer on: the request raised or has
\* no entry (return); else completed and result_data are committed, the files
\* are handled and the result goes to the websocket or to callback_url.
handle_job_completion ==
    /\ gk = "ComfyUI"
    /\ pc = "history"
    /\ ~SubmitBusy
    /\ \E answered \in BOOLEAN, ok \in BOOLEAN :
          IF ~answered \/ job \notin history
          THEN /\ ReturnToListener(current_queue)
               /\ UNCHANGED <<jobs, disk, delivered>>
          ELSE /\ jobs' = Commit(job, "completed", OutputsOf(jobs[job].comfy_prompt_id))
               /\ disk' = [disk EXCEPT ![job] = format_and_handle_files(job)]
               /\ IF jobs[job].callback_type = "websocket"
                  THEN /\ delivered' = send_json(job, PayloadForm(job), ok)
                       /\ IF job \in active_connections
                          THEN /\ pc' = "deliver"
                               /\ UNCHANGED <<last_queue_remaining, current_queue, job>>
                          ELSE ReturnToListener(current_queue)
                  ELSE IF jobs[job].callback_type = "webhook" /\ jobs[job].callback_url # None
                       THEN /\ delivered' = post(job, PayloadForm(job), ok)
                            /\ pc' = "deliver"
                            /\ UNCHANGED <<last_queue_remaining, current_queue, job>>
                       ELSE /\ ReturnToListener(current_queue)
                            /\ UNCHANGED delivered
    /\ http' = NoRequest
    /\ UNCHANGED <<gk, now, active_connections, sockets, wvars,
                   handlers, last_prompt_id, events, rqueue, running, history>>

\* The send or the POST returned or raised (caught and printed).
handle_job_completion_delivered ==
    /\ gk = "ComfyUI"
    /\ pc = "deliver"
    /\ ~SubmitBusy
    /\ ReturnToListener(current_queue)
    /\ http' = NoRequest
    /\ UNCHANGED <<gk, jobs, now, active_connections, sockets, delivered, wvars,
                   handlers, last_prompt_id, events, rqueue, running, history, disk>>

----------------------------------------------------------------------------
WorkerNext ==
    \/ Tick
    \/ execute_task
    \/ Idx_worker_loop_poll
    \/ Idx_worker_loop_load
    \/ Idx_worker_loop_finish
    \/ Idx_worker_loop_end
    \/ websocket_connect
    \/ websocket_disconnect
    \/ execute_musetalk
    \/ Muse_worker_loop_poll
    \/ Muse_worker_loop_run
    \/ Muse_worker_loop_post
    \/ Muse_worker_loop_post_error
    \/ Muse_worker_loop_sent
    \/ execute_generation
    \/ execute_generation_poll
    \/ Wan_worker_loop_poll
    \/ Wan_worker_loop_run

ComfyNext ==
    \/ execute_workflow
    \/ execute_workflow_submit
    \/ execute_workflow_response
    \/ renderer_start
    \/ renderer_finish
    \/ listen_to_comfyui
    \/ handle_job_completion
    \/ handle_job_completion_delivered

Next == WorkerNext \/ ComfyNext

\* Every service.
Spec == Init /\ [][Next]_vars

\* The services with a worker_loop: IndexTTS2, MuseTalk, Wan2GP.
WorkerInit == Init /\ gk # "ComfyUI"
WorkerSpec == WorkerInit /\ [][WorkerNext]_vars

----------------------------------------------------------------------------
\* Shutdown and restart of a worker-loop service

\* The lifespan's shutdown part cancels worker_task: CancelledError is raised
\* at the await the loop is suspended at; it is no Exception, so only the
\* finally (db.close()) runs and nothing more is committed.  The process ends
\* with what it held in memory; the service is started again on the same jobs
\* table and its lifespan creates a new worker_loop task.
lifespan_restart ==
    /\ gk # "ComfyUI"
    /\ pc # "claimed" \/ gk = "Wan2GP"
    /\ pc' = "sleep"
    /\ job' = 0
    /\ session' = Clean
    /\ PROCESSING_LOCK' = FALSE
    /\ MODELS' = FALSE
    /\ LAST_JOB_TIMESTAMP' = NoTimestamp
    /\ active_connections' = {}
    /\ sockets' = [j \in JobIds |-> << >>]
    /\ polling' = {}
    /\ did' = "restarted"
    /\ http' = NoRequest
    /\ UNCHANGED <<gk, jobs, now, delivered, worker, cvars>>

----------------------------------------------------------------------------
\* ComfyUI's start on a jobs table left by earlier runs

\* Seconds.
Hour == 3600
Day == 24 * Hour

\* How far the server's local time is ahead of UTC.
UtcOffsets == {0 - 2 * Hour, 0, 2 * Hour}

\* The ages, at the start, of the rows earlier runs left.
OldAges ==
    {Day, COMPLETED_JOB_HISTORY_DAYS * Day - Hour, COMPLETED_JOB_HISTORY_DAYS * Day + Hour,
     JOB_HISTORY_DAYS * Day - Hour, JOB_HISTORY_DAYS * Day + Hour}

\* A row an earlier run left: created_at is the server default func.now(),
\* SQLite's CURRENT_TIMESTAMP, which is UTC.
OldRows ==
    {[status |-> st, result_data |-> IF st = "completed" THEN Outputs ELSE None,
      created_at |-> 0 - age, callback_type |-> "websocket", callback_url |-> None,
      output_format |-> "binary", output_path |-> None, comfy_prompt_id |-> 0] :
        st \in {"completed", "queued", "submission_failed"}, age \in OldAges}

\* Job.created_at < cutoff, with cutoff = datetime.now() - timedelta(days): the
\* local wall clock, compared with the UTC created_at.
OlderThan(row, days, utcoffset) == row.created_at < (now + utcoffset) - days * Day

\* cleanup_old_jobs(), called by lifespan before it starts the listener.
cleanup_old_jobs ==
    /\ gk = "ComfyUI"
    /\ pc = "startup"
    /\ \E utcoffset \in UtcOffsets :
          LET keep(row) ==
                  /\ ~(row.status = "completed"
                          /\ OlderThan(row, COMPLETED_JOB_HISTORY_DAYS, utcoffset))
                  /\ ~OlderThan(row, JOB_HISTORY_DAYS, utcoffset)
          IN  jobs' = SelectSeq(jobs, keep)
    /\ pc' = "listen"
    /\ http' = NoRequest
    /\ UNCHANGED <<gk, now, job, active_connections, sockets, delivered, wvars,
                   handlers, last_queue_remaining, last_prompt_id, current_queue, events,
                   rqueue, running, history, disk>>

StartInit ==
    /\ gk = "ComfyUI"
    /\ jobs \in UNION {[1..n -> OldRows] : n \in 0..MaxJobs}
    /\ now = 0
    /\ pc = "startup"
    /\ FreshProcess

StartNext == cleanup_old_jobs \/ ComfyNext

StartSpec == StartInit /\ [][StartNext]_vars

\* ComfyUI alone, with the prompts other clients give its renderer.
ComfyInit == Init /\ gk = "ComfyUI"
ComfyEnvNext ==
    \/ ComfyNext
    \/ websocket_connect
    \/ websocket_disconnect
    \/ renderer_foreign

ComfySpec == ComfyInit /\ [][ComfyEnvNext]_vars

\* The worker-loop services with the faults and requests of their environment
\* that WorkerNext leaves out.
EnvNext ==
    \/ WorkerNext
    \/ worker_loop_query_raises
    \/ websocket_connect_another
    \/ get_status

EnvSpec == WorkerInit /\ [][EnvNext]_vars

\* worker_loop is an asyncio task of a running event loop: a step of it that
\* can be taken is taken.
WorkerFairness ==
    /\ WF_vars(Idx_worker_loop_poll) /\ WF_vars(Idx_worker_loop_load)
    /\ WF_vars(Idx_worker_loop_finish) /\ WF_vars(Idx_worker_loop_end)
    /\ WF_vars(Muse_worker_loop_poll) /\ WF_vars(Muse_worker_loop_run)
    /\ WF_vars(Muse_worker_loop_post) /\ WF_vars(Muse_worker_loop_post_error)
    /\ WF_vars(Muse_worker_loop_sent)
    /\ WF_vars(Wan_worker_loop_poll) /\ WF_vars(Wan_worker_loop_run)
FairWorkerSpec == WorkerSpec /\ WorkerFairness

\* The lifespan's shutdown part alone, in the process that goes on to exit:
\* print, worker_task.cancel().  The cancelled loop runs its finally and leaves
\* the lock block; nothing else of the module's state is touched.
lifespan_shutdown ==
    /\ gk # "ComfyUI"
    /\ pc # "stopped"
    /\ pc # "claimed" \/ gk = "Wan2GP"
    /\ pc' = "stopped"
    /\ job' = 0
    /\ session' = Clean
    /\ PROCESSING_LOCK' = FALSE
    /\ polling' = {}
    /\ did' = "shutdown"
    /\ http' = NoRequest
    /\ UNCHANGED <<gk, jobs, now, MODELS, LAST_JOB_TIMESTAMP, active_connections, sockets,
                   delivered, worker, cvars>>

ShutdownNext == WorkerNext \/ lifespan_shutdown

ShutdownSpec == WorkerInit /\ [][ShutdownNext]_vars

\* Wan2GP alone, with a worker_loop task and request handlers that run
\* whenever they can.
GenerateInit == Init /\ gk = "Wan2GP"

GenerateNext ==
    \/ Tick
    \/ execute_generation
    \/ execute_generation_poll
    \/ Wan_worker_loop_poll
    \/ Wan_worker_loop_run

GenerateSpec ==
    /\ GenerateInit /\ [][GenerateNext]_vars
    /\ WF_vars(Wan_worker_loop_poll) /\ WF_vars(Wan_worker_loop_run)
    /\ WF_vars(execute_generation_poll)

\* The worker-loop services with shutdowns and restarts.
RestartNext == WorkerNext \/ lifespan_restart

RestartSpec == WorkerInit /\ [][RestartNext]_vars
FairRestartSpec == RestartSpec /\ WorkerFairness
----------------------------------------------------------------------------
\* Properties

Rows == 1..Len(jobs)

\* C1: in IndexTTS2, MuseTalk and Wan2GP, at any time at most one row of the
\* jobs table has status 'processing'.
C1_AtMostOneProcessing ==
    Cardinality({j \in Rows : jobs[j].status = "processing"}) <= 1

\* A row is 'processing' while another submitted row waits.
C1_Witness ==
    \E j, k \in Rows : jobs[j].status = "processing" /\ jobs[k].status = "pending"

\* C2: the committed status of a row only moves pending -> processing ->
\* (completed | failed): no step skips 'processing', none goes backwards, and a
\* row that is 'completed' or 'failed' never changes status again.
C2_StatusMovesForward ==
    [][\A j \in Rows :
          jobs'[j].status # jobs[j].status =>
              <<jobs[j].status, jobs'[j].status>> \in
                  { <<"pending", "processing">>, <<"processing", "completed">>,
                    <<"processing", "failed">> }]_vars

\* One row went all the way to 'completed' and another to 'failed'.
C2_Witness ==
    \E j, k \in Rows : jobs[j].status = "completed" /\ jobs[k].status = "failed"

\* C3: under fairness of worker_loop, every submitted job eventually has status
\* 'completed' or 'failed'; none stays 'pending' or 'processing'.
C3_AllJobsTerminate ==
    \A j \in JobIds : (j \in Rows) ~> (j \in Rows /\ jobs[j].status \in Terminal)

\* C4: while every Worker call has succeeded, jobs are taken in insertion order:
\* of two rows the later inserted one is claimed only when the earlier one is
\* 'completed', also when both carry the same created_at.
C4_FIFO ==
    (\A j \in Rows : worker[j] # "raised") =>
        \A a, b \in Rows :
            (a < b /\ jobs[b].status # "pending") => jobs[a].status = "completed"

\* C5: when the Worker raised for a job, worker_loop goes on and, once it has
\* let go of the job, the row is 'failed' with the traceback as its result.
C5_WorkerExceptionRecorded ==
    \A j \in Rows :
        worker[j] = "raised" =>
            IF job = j THEN pc # "dead"
            ELSE jobs[j].status = "failed" /\ jobs[j].result_data = Traceback

\* C6: in MuseTalk worker_loop never ends, whatever the webhook POST does, and
\* every row it has let go of is terminal, not left 'processing'.
C6_FailureStaysInLoop ==
    gk = "MuseTalk" =>
        /\ pc # "dead"
        /\ \A j \in Rows : jobs[j].status = "processing" => job = j

\* C7: when the result was produced for a job and a delivery of it failed, the
\* row ends as 'completed' with the result path (ComfyUI: the outputs) in it.
C7_DeliveryErrorKeepsOutcome ==
    \A j \in Rows :
        ( /\ IF gk = "ComfyUI" THEN j \in history ELSE worker[j] = "returned"
          /\ \E i \in 1..Len(delivered[j]) : ~delivered[j][i].ok
          /\ job # j \/ pc = "dead" )
        => /\ jobs[j].status = "completed"
           /\ jobs[j].result_data \in {FilePath, OutputsOf(j)}

\* C8: in MuseTalk and ComfyUI no job has more than one delivery attempt (webhook
\* POST or websocket send).
C8_OneDeliveryAttempt ==
    gk \in {"MuseTalk", "ComfyUI"} => \A j \in Rows : Len(delivered[j]) <= 1

\* C9: in ComfyUI, after a webhook POST that failed the produced file still
\* exists, at its source or at the destination it was moved to.
C9_FailedPostKeepsArtifact ==
    gk = "ComfyUI" =>
        \A j \in Rows :
            (\E i \in 1..Len(delivered[j]) :
                 delivered[j][i].via = "webhook" /\ ~delivered[j][i].ok)
            => disk[j] \in {"source", "sources", "dest"}

\* C10: the answer to a submission that misses a required field is a 4xx, and
\* the step that gives it leaves the jobs table as it was.
C10_MissingFieldRejected ==
    [][http'.missing => (http'.code \in 400..499 /\ jobs' = jobs)]_vars

\* C11: in MuseTalk and ComfyUI every stored row whose callback_type is 'webhook'
\* has a callback_url: a submission without one never enters the jobs table.
C11_WebhookRowHasUrl ==
    gk \in {"MuseTalk", "ComfyUI"} =>
        \A j \in Rows : jobs[j].callback_type = "webhook" => jobs[j].callback_url # None

\* C12: in IndexTTS2 and MuseTalk an engine left loaded by the last job is
\* unloaded by the idle iteration that finds the timeout passed, and once:
\* unload_models runs only on a loaded engine and takes the timestamp away, so
\* later idle iterations do not run it again; a job claimed while the engine is
\* unloaded makes a real load attempt, and its Worker call is made with the
\* engine loaded.
C12_UnloadOnceReloadOnce ==
    [][ /\ ( /\ Idx_worker_loop_poll \/ Muse_worker_loop_poll
             /\ PendingFirst = {}
             /\ MODELS /\ LAST_JOB_TIMESTAMP # NoTimestamp
             /\ now - LAST_JOB_TIMESTAMP > IDLE_TIMEOUT_SECONDS )
           => (did' = "unloaded" /\ ~MODELS')
        /\ did' = "unloaded" =>
              MODELS /\ ~MODELS' /\ LAST_JOB_TIMESTAMP' = NoTimestamp
        /\ (gk \in {"IndexTTS2", "MuseTalk"} /\ pc = "claimed" /\ pc' # "claimed"
              /\ ~MODELS) => did' \in {"loaded", "load_raised"}
        /\ \A j \in Rows :
              (gk \in {"IndexTTS2", "MuseTalk"} /\ worker[j] = ""
                 /\ worker'[j] = "returned") => MODELS' ]_vars

\* A real load for a job that came after the engine had served another job: the
\* engine was unloaded in between.
C12_Witness ==
    /\ did = "loaded"
    /\ \E j, k \in Rows :
          j # k /\ worker[j] = "returned" /\ (worker[k] = "returned" \/ job = k)

C14_LoadFailureFailsOnlyTheJob ==
    [][ /\ did' = "load_raised" =>
              /\ ~MODELS'
              /\ \A j \in Rows : j # job => jobs'[j] = jobs[j]
        /\ (gk \in {"IndexTTS2", "MuseTalk"} /\ job # 0 /\ pc # "dead"
              /\ worker[job] = "raised" /\ ~MODELS) =>
              /\ pc' # "dead"
              /\ job' # job => jobs'[job].status = "failed"
        /\ (gk \in {"IndexTTS2", "MuseTalk"} /\ pc = "claimed" /\ pc' # "claimed"
              /\ ~MODELS) => did' \in {"loaded", "load_raised"} ]_vars

\* C15: a row's committed result, once non-empty, never changes.
C15_ResultWriteOnce ==
    [][\A j \in Rows :
          jobs[j].result_data # None => jobs'[j].result_data = jobs[j].result_data]_vars

\* Two rows have their result: the service went on after the first was written.
C15_Witness ==
    \E j, k \in Rows :
        j # k /\ jobs[j].result_data # None /\ jobs[k].result_data # None

\* C16: after a poll whose query raised a persistence error, worker_loop is
\* still running (it backs off and polls again), so later jobs are processed.
C16_StoreErrorKeepsLoop == did = "query_raised" => pc # "dead"

\* C17: a webhook job whose endpoint answered and whose work succeeded has
\* exactly one POST, a multipart file part when binary delivery was requested
\* and a JSON body of file paths otherwise, and its row is 'completed'.
C17_WebhookOnePostOfRequestedForm ==
    \A j \in Rows :
        ( /\ gk \in {"MuseTalk", "ComfyUI"}
          /\ jobs[j].callback_type = "webhook" /\ jobs[j].callback_url # None
          /\ \A i \in 1..Len(delivered[j]) : delivered[j][i].ok
          /\ job # j
          /\ IF gk = "MuseTalk" THEN worker[j] = "returned"
                                ELSE jobs[j].status = "completed" )
        => /\ jobs[j].status = "completed"
           /\ Len(delivered[j]) = 1
           /\ delivered[j][1].via = "webhook"
           /\ delivered[j][1].body \in
                 IF gk = "MuseTalk"
                 THEN (IF jobs[j].webhook_binary_output THEN {"file"} ELSE {"filePath"})
                 ELSE (IF jobs[j].output_format = "binary" THEN {"file"}
                                                           ELSE {"filePath", "multiple"})

\* C18: a step that emits a job's result (a webhook POST or websocket message
\* that got through) is taken with PROCESSING_LOCK held and leaves the job's row in a terminal
\* state: nobody gets a result while the store still says 'processing'.
C18_EmittedAfterTerminal ==
    [][\A j \in Rows :
          ( /\ gk \in {"IndexTTS2", "MuseTalk"}
            /\ delivered'[j] # delivered[j]
            /\ delivered'[j][Len(delivered'[j])].ok )
          => /\ jobs'[j].status \in Terminal
             /\ PROCESSING_LOCK /\ PROCESSING_LOCK']_vars

\* C19: in the step that makes a websocket job's result ready, every client
\* connected for the job is sent the result, and no client is ever sent a
\* job's result twice.
C19_ConnectedClientGetsResultOnce ==
    [][\A j \in Rows : \A c \in Clients :
          LET sent == {i \in 1..Len(delivered'[j]) : delivered'[j][i].to = c}
          IN  /\ Cardinality(sent) <= 1
              /\ ( /\ gk \in {"IndexTTS2", "MuseTalk"}
                    /\ jobs[j].callback_type = "websocket"
                    /\ worker[j] = "" /\ worker'[j] # ""
                    /\ \E i \in 1..Len(sockets[j]) : sockets[j][i] = c )
                  => Cardinality(sent) = 1]_vars

\* C20: a websocket job that ended with nothing sent has its result in its
\* row, and a caller who comes afterwards gets it: a client that connects for
\* the job is sent the result, and a status answer carries it.
C20_MissedPushCanBeFetched ==
    [][\A j \in Rows :
          ( /\ gk \in {"IndexTTS2", "MuseTalk"}
            /\ jobs[j].callback_type = "websocket"
            /\ jobs[j].status \in Terminal
            /\ job # j
            /\ delivered[j] = << >> )
          => /\ jobs[j].result_data # None
             /\ Len(sockets'[j]) > Len(sockets[j]) => delivered'[j] # << >>
             /\ "body" \in DOMAIN http' => "result_data" \in DOMAIN http'.body]_vars

\* C21: the subscriber map decides nothing about a job.  A connect or a
\* disconnect changes neither the store nor the engine nor where worker_loop
\* is; and what the iteration of a websocket job leaves behind (the row, the
\* engine, LAST_JOB_TIMESTAMP) is fixed by how load_models and the Worker
\* ended, whoever was connected and whether the send got through.
C21_SubscribersDecideNothing ==
    [][ /\ (active_connections' # active_connections \/ sockets' # sockets)
              => UNCHANGED <<jobs, MODELS, LAST_JOB_TIMESTAMP, session, worker, job, pc,
                             PROCESSING_LOCK, delivered>>
        /\ \A j \in Rows :
              ( /\ gk \in {"IndexTTS2", "MuseTalk"}
                /\ jobs[j].callback_type = "websocket"
                /\ job = j /\ job' # j )
              => /\ worker'[j] \in {"returned", "raised"}
                 /\ jobs'[j].status =
                       IF worker'[j] = "returned" THEN "completed" ELSE "failed"
                 /\ jobs'[j].result_data =
                       IF worker'[j] = "returned" THEN FilePath ELSE Traceback
                 /\ \A k \in Rows : k # j => jobs'[k] = jobs[k]
                 /\ worker'[j] = "returned" => MODELS'
                 /\ LAST_JOB_TIMESTAMP' = now ]_vars

\* Two websocket jobs whose Worker returned have the same outcome in the store,
\* one with its result sent, the other with a send that failed or no send.
C21_Witness ==
    \E j, k \in Rows :
        /\ jobs[j].callback_type = "websocket" /\ jobs[k].callback_type = "websocket"
        /\ worker[j] = "returned" /\ worker[k] = "returned"
        /\ job = 0
        /\ jobs[j].status = "completed" /\ jobs[k].status = "completed"
        /\ delivered[j] # << >> /\ delivered[j][1].ok
        /\ (delivered[k] = << >> \/ ~delivered[k][1].ok)

\* C22: in IndexTTS2 and MuseTalk a submission can be handled in every state,
\* also while worker_loop holds the lock for a job (the instant between an
\* IndexTTS2 claim and the executor call, with the engine loaded, aside).
C22_SubmissionNeverWaits ==
    /\ (gk = "IndexTTS2" /\ Len(jobs) < MaxJobs /\ ~(pc = "claimed" /\ MODELS))
          => ENABLED execute_task
    /\ (gk = "MuseTalk" /\ Len(jobs) < MaxJobs) => ENABLED execute_musetalk

\* C23: in ComfyUI no step changes the row, the deliveries or the files of a
\* job that is 'completed'; and the listener's step for a completion signal
\* whose prompt has no row, or a 'completed' one, changes no row, sends and
\* posts nothing and stays with the listener.
C23_RepeatedCompletionIsNoOp ==
    [][ /\ \A j \in Rows :
              (gk = "ComfyUI" /\ jobs[j].status = "completed")
              => jobs'[j] = jobs[j] /\ delivered'[j] = delivered[j] /\ disk'[j] = disk[j]
        /\ ( /\ gk = "ComfyUI" /\ pc = "listen"
              /\ CompletionSignal
              /\ \/ JobOfPrompt(last_prompt_id) = 0
                 \/ jobs[JobOfPrompt(last_prompt_id)].status = "completed"
              /\ events' = Tail(events) )
            => /\ jobs' = jobs /\ delivered' = delivered /\ disk' = disk
               /\ pc' = "listen" ]_vars

\* The listener has just handled a completion signal for a job that was
\* completed, and delivered, before.
C23_Witness ==
    /\ gk = "ComfyUI" /\ did = "repeat"
    /\ last_prompt_id \in Rows
    /\ jobs[last_prompt_id].status = "completed"
    /\ Len(delivered[last_prompt_id]) = 1

\* C24: ComfyUI's startup prune removes exactly the 'completed' rows older
\* than COMPLETED_JOB_HISTORY_DAYS and the rows older than JOB_HISTORY_DAYS,
\* keeps the others as they are, and no later step removes a row.
C24_PruneRemovesExactlyTheOld ==
    [][ IF pc = "startup"
        THEN LET old(row, days) == now - row.created_at > days * Day
                 keep(row) == /\ ~(row.status = "completed"
                                     /\ old(row, COMPLETED_JOB_HISTORY_DAYS))
                              /\ ~old(row, JOB_HISTORY_DAYS)
             IN  jobs' = SelectSeq(jobs, keep)
        ELSE Len(jobs') >= Len(jobs) ]_vars

\* C25: in every service the status of every row is one of pending,
\* processing, completed, failed.
C25_StatusInTheFour == \A j \in Rows : jobs[j].status \in Statuses

\* C26: in the committed table of a worker-loop service a row has a result
\* exactly when its status is terminal: the artifact path when 'completed',
\* the error text when 'failed'.
C26_ResultIffTerminal ==
    gk # "ComfyUI" =>
        \A j \in Rows :
            /\ jobs[j].result_data # None <=> jobs[j].status \in Terminal
            /\ jobs[j].status = "completed" => jobs[j].result_data = FilePath
            /\ jobs[j].status = "failed" => jobs[j].result_data = Traceback

\* One row is 'completed', one 'failed'.
C26_Witness ==
    \E j, k \in Rows : jobs[j].status = "completed" /\ jobs[k].status = "failed"

\* C27: while a row is 'processing' worker_loop holds PROCESSING_LOCK; the
\* lock is free only while the loop sleeps between iterations, and then no
\* row is 'processing'.
C27_LockCoversProcessing ==
    gk # "ComfyUI" =>
        /\ (\E j \in Rows : jobs[j].status = "processing") => PROCESSING_LOCK
        /\ ~PROCESSING_LOCK => pc = "sleep"

\* C28: a job that is 'processing' when the service is shut down and started
\* again still reaches 'completed' or 'failed', and at no time are two rows
\* 'processing'.
C28_ClaimedJobSurvivesRestart ==
    /\ \A j \in JobIds :
          [](( /\ did = "restarted"
               /\ IF j \in Rows THEN jobs[j].status = "processing" ELSE FALSE )
                => <>(IF j \in Rows THEN jobs[j].status \in Terminal ELSE FALSE))
    /\ [](\A j, k \in Rows :
             (jobs[j].status = "processing" /\ jobs[k].status = "processing") => j = k)

\* C29: in IndexTTS2 and MuseTalk the step that claims a job sets
\* LAST_JOB_TIMESTAMP to none, nothing sets it while the job is held, and the
\* step that ends the iteration of a claimed job, whatever path the job took,
\* sets it to the time of that step.
C29_TimestampFollowsTheJob ==
    [][ (gk # "Wan2GP" /\ gk # "ComfyUI") =>
          ( /\ (job = 0 /\ job' # 0) => LAST_JOB_TIMESTAMP' = NoTimestamp
            /\ (job # 0 /\ job' = job /\ pc' # "dead") => LAST_JOB_TIMESTAMP' = NoTimestamp
            /\ (job # 0 /\ (job' = 0 \/ (pc # "dead" /\ pc' = "dead")))
                  => LAST_JOB_TIMESTAMP' = now ) ]_vars

\* C30: in IndexTTS2 and MuseTalk every step that changes MODELS or
\* LAST_JOB_TIMESTAMP is a step of worker_loop inside its lock block: the lock
\* is held when the step begins or when it ends, or the step is a whole idle
\* iteration that found the lock free, unloaded and released it.  A step of a
\* request handler (an /execute or /status answer, a /ws connect or
\* disconnect) changes neither.
C30_EngineChangesUnderLock ==
    [][ (gk # "Wan2GP" /\ gk # "ComfyUI") =>
          ( /\ (MODELS' # MODELS \/ LAST_JOB_TIMESTAMP' # LAST_JOB_TIMESTAMP)
                  => \/ PROCESSING_LOCK
                     \/ PROCESSING_LOCK'
                     \/ ( /\ ~PROCESSING_LOCK /\ pc = "sleep" /\ pc' = "sleep"
                          /\ job = 0 /\ did' = "unloaded" )
            /\ ( \/ http' # NoRequest
                 \/ sockets' # sockets
                 \/ active_connections' # active_connections )
                  => UNCHANGED <<MODELS, LAST_JOB_TIMESTAMP>> ) ]_vars

\* The engine was just loaded for a second job, inside the lock, after the
\* first job's end had set the timestamp and an idle iteration had unloaded.
C30_Witness ==
    /\ gk \in {"IndexTTS2", "MuseTalk"}
    /\ PROCESSING_LOCK
    /\ did = "loaded"
    /\ MODELS
    /\ LAST_JOB_TIMESTAMP = NoTimestamp
    /\ \E j \in Rows : jobs[j].status \in Terminal /\ worker[j] = "returned"

\* C31: in IndexTTS2 and MuseTalk, once the lifespan's shutdown part has run the
\* engine is unloaded (MODELS is empty), whether or not the idle timeout had
\* elapsed.
C31_ShutdownUnloadsEngine ==
    (gk \in {"IndexTTS2", "MuseTalk"} /\ did = "shutdown") => ~MODELS

\* C32: Wan2GP's /generate answers for a row only when that row is terminal as
\* committed, with 500 and the stored error text for a 'failed' row and
\* otherwise with status 'completed' and the stored result_path as filePath;
\* and with a worker_loop and a handler that keep running, every request that
\* entered the polling loop is answered.
C32_GenerateAnswersItsOwnOutcome ==
    /\ [][\A j \in polling : j \notin polling' =>
             /\ jobs[j].status \in Terminal
             /\ jobs' = jobs
             /\ http' = IF jobs[j].status = "failed"
                        THEN [missing |-> FALSE, code |-> 500, detail |-> Traceback]
                        ELSE [missing |-> FALSE, code |-> 200, status |-> "completed",
                              filePath |-> FilePath]
             /\ jobs[j].result_data = IF jobs[j].status = "failed" THEN Traceback ELSE FilePath
             /\ worker[j] = IF jobs[j].status = "failed" THEN "raised" ELSE "returned"]_vars
    /\ \A j \in JobIds : (j \in polling) ~> (j \notin polling)

\* Both outcomes have been answered: a failed row with 500 just now, after a
\* completed one.
C32_Witness ==
    /\ gk = "Wan2GP"
    /\ polling = {}
    /\ "detail" \in DOMAIN http
    /\ \E j, k \in Rows : jobs[j].status = "completed" /\ jobs[k].status = "failed"

\* C33: once a row is inserted it stays where it is, and no step changes any of
\* its columns other than status and the result column: created_at, the callback
\* type and URL and the output preferences keep the values of the submission.
\* In ComfyUI comfy_prompt_id is written once, by the submission that moves the
\* row from 'pending_submission' to 'queued'.
C33_SubmittedColumnsAreFixed ==
    [][\A j \in Rows :
          /\ j \in 1..Len(jobs')
          /\ DOMAIN jobs'[j] = DOMAIN jobs[j]
          /\ \A f \in DOMAIN jobs[j] \ {"status", "result_data", "comfy_prompt_id"} :
                jobs'[j][f] = jobs[j][f]
          /\ ("comfy_prompt_id" \in DOMAIN jobs[j]
                 /\ jobs'[j].comfy_prompt_id # jobs[j].comfy_prompt_id)
                => /\ jobs[j].status = "pending_submission"
                   /\ jobs'[j].status = "queued"
                   /\ jobs[j].comfy_prompt_id = 0 ]_vars

\* A webhook row submitted at an earlier time went through claim, completion
\* and delivery.
C33_Witness ==
    \E j \in Rows :
        /\ jobs[j].status = "completed"
        /\ jobs[j].callback_type = "webhook"
        /\ jobs[j].created_at < now
        /\ delivered[j] # << >>

\* C34: in IndexTTS2 and MuseTalk the Worker's inference runs only with the
\* engine loaded: while IndexTTS2's inference call is in progress MODELS is
\* non-empty, a Worker call that returned left MODELS non-empty, and a job
\* whose load_models raised goes to the except branch without any inference:
\* its Worker outcome is the exception and its status is set to 'failed'.
C34_InferenceOnlyWhenLoaded ==
    [][ (gk # "Wan2GP" /\ gk # "ComfyUI") =>
          ( /\ pc' = "run" => MODELS'
            /\ \A j \in JobIds : (worker[j] = "" /\ worker'[j] = "returned") => MODELS'
            /\ did' = "load_raised" =>
                  /\ ~MODELS /\ ~MODELS'
                  /\ pc' # "run"
                  /\ job \in Rows
                  /\ worker'[job] = "raised"
                  /\ \/ jobs'[job].status = "failed"
                     \/ session'.status = "failed" ) ]_vars

\* load_models raised for a job after an earlier job's inference had returned
\* and the idle engine had been unloaded.
C34_Witness ==
    /\ gk \in {"IndexTTS2", "MuseTalk"}
    /\ did = "load_raised"
    /\ \E j \in Rows : worker[j] = "returned" /\ jobs[j].status = "completed"

\* C35: in ComfyUI no completion signal is lost: once the renderer has finished
\* every prompt it accepted, the /execute handlers have returned and the
\* listener has read every message and is waiting for the next, the row of
\* each prompt the renderer finished and whose prompt id /execute recorded is
\* 'completed'.
C35_NoCompletionSignalLost ==
    ( /\ gk = "ComfyUI"
      /\ pc = "listen" /\ events = << >>
      /\ rqueue = << >> /\ ~running
      /\ \A j \in JobIds : handlers[j] = "" )
    => \A j \in Rows :
          (j \in history /\ jobs[j].comfy_prompt_id = j) => jobs[j].status = "completed"

\* The renderer took prompt j into its queue: it is queued, running or finished.
Accepted(j) == j \in history \/ \E i \in 1..Len(rqueue) : rqueue[i] = j

\* C36: in ComfyUI a row whose /execute handler has returned is not
\* 'pending_submission': it is 'queued' with its comfy_prompt_id when the
\* renderer accepted the prompt, and 'submission_failed' without a
\* comfy_prompt_id, answered with 500, when it did not; a 'submission_failed'
\* row never changes status afterwards and nothing is delivered for it.
C36_SubmissionOutcomeIsRecorded ==
    [][ gk = "ComfyUI" =>
          \A j \in 1..Len(jobs') :
             /\ handlers'[j] = "" =>
                   IF Accepted(j)'
                   THEN jobs'[j].status \in {"queued", "completed"}
                        /\ jobs'[j].comfy_prompt_id = j
                   ELSE jobs'[j].status = "submission_failed"
                        /\ jobs'[j].comfy_prompt_id = 0
             /\ (handlers[j] # "" /\ handlers'[j] = ""
                    /\ jobs'[j].status = "submission_failed") => http'.code = 500
             /\ (j \in Rows /\ jobs[j].status = "submission_failed")
                   => /\ jobs'[j].status = "submission_failed"
                      /\ delivered'[j] = delivered[j] ]_vars

\* C37: in ComfyUI a row becomes 'completed' only from 'queued', only in
\* handle_job_completion called for the row's own comfy_prompt_id, and only
\* when the renderer's history has that prompt id; the result_data committed
\* with it is what the history holds for that prompt id.
C37_CompletedOnlyByOwnPrompt ==
    [][ gk = "ComfyUI" =>
          \A j \in Rows :
             (jobs[j].status # "completed" /\ jobs'[j].status = "completed") =>
                /\ jobs[j].status = "queued"
                /\ pc = "history" /\ job = j
                /\ jobs[j].comfy_prompt_id # 0
                /\ jobs[j].comfy_prompt_id = last_prompt_id
                /\ jobs[j].comfy_prompt_id \in history
                /\ jobs'[j].result_data = OutputsOf(jobs[j].comfy_prompt_id)
                /\ \A k \in Rows : k # j => jobs'[k] = jobs[k] ]_vars

\* Two rows are completed, each with the outputs of its own prompt.
C37_Witness ==
    /\ gk = "ComfyUI"
    /\ \E j, k \in Rows :
          /\ j # k
          /\ jobs[j].status = "completed" /\ jobs[k].status = "completed"
          /\ jobs[j].result_data = OutputsOf(jobs[j].comfy_prompt_id)
          /\ jobs[k].result_data = OutputsOf(jobs[k].comfy_prompt_id)
          /\ jobs[j].result_data # jobs[k].result_data

====
